---- MODULE Spec2Model ----
(***************************************************************************)
(* Personal Context Manager (lab/personal/context_manager.py).             *)
(*                                                                         *)
(* The store is the module-level ContextManager: an insertion-ordered      *)
(* dict of ContextItem objects mirrored to one JSON file.  The tools       *)
(* add_context, update_context, search_context, get_recent_context,        *)
(* get_context_details and get_context_stats operate on it.                *)
(*                                                                         *)
(* Modelling conventions                                                   *)
(*  - a str is a sequence of one-character strings;                        *)
(*  - a datetime is a number of clock ticks since the epoch, with          *)
(*    TicksPerSecond ticks in a second (the sub-second part is what        *)
(*    datetime calls microsecond);                                         *)
(*  - an enum member is its NAME ("TASK"); its .value ("task") is what     *)
(*    reaches the ID and the JSON file;                                    *)
(*  - a dict is an insertion-ordered sequence of [key, item] entries       *)
(*    (the store, a JSON object) or a function on its keys (metadata);     *)
(*  - an optional argument is [given |-> FALSE] when the caller leaves it  *)
(*    out and [given |-> TRUE, val |-> v] otherwise;                       *)
(*  - the metadata attribute of an item is a reference: either to the     *)
(*    one dict object that is the default value of add_context's metadata  *)
(*    parameter (created once, at def time) or to a dict of its own.       *)
(***************************************************************************)
EXTENDS Integers, Sequences, FiniteSets, TLC

VARIABLES
    contexts,          \* ContextManager.contexts: sequence of [key, item]
    default_metadata,  \* the dict object bound as default of add_context(metadata={})
    file,              \* the backing file context_store.json
    now,               \* the wall clock read by datetime.now(timezone.utc)
    last,              \* the last tool call: its arguments and what it returned
    saved,             \* outcome of the last save_contexts: "none", "ok", "failed"
    ops,               \* number of tool calls and restarts so far
    failures,          \* number of failed saves so far
    lock,              \* the caller holding the mutex of the wrapped tools, or "free"
    callers,           \* each concurrent caller's position in its tool call and its locals
    persisted          \* the adds and updates whose save completed, and whether an
                       \* add has replaced their record: [id, created, at, by, replaced]

mutex_vars == <<lock, callers, persisted>>

vars == <<contexts, default_metadata, file, now, last, saved, ops, failures, lock,
          callers, persisted>>

----------------------------------------------------------------------------
(* Bounds of the model *)

MaxOps == 3
MaxTime == 3
TicksPerSecond == 2
MaxFailures == 1
MaxCalls == 2

----------------------------------------------------------------------------
(* Generic helpers *)

Min(a, b) == IF a < b THEN a ELSE b
Max(a, b) == IF a > b THEN a ELSE b

Range(s) == {s[i] : i \in DOMAIN s}

EmptyDict == <<>>

DictOf(k, v) == [x \in {k} |-> v]

\* a faulty dict merge: the argument replaces the mapping
dict_replace(d, other) == other

\* dict.update(other): keys of other are added or overwritten, the rest stay
dict_update(d, other) ==
    [k \in (DOMAIN d) \cup (DOMAIN other) |->
        IF k \in DOMAIN other THEN other[k] ELSE d[k]]

Given(v) == [given |-> TRUE, val |-> v]
NotGiven == [given |-> FALSE]

----------------------------------------------------------------------------
(* str *)

LowerChar(c) ==
    CASE c = "A" -> "a"
      [] c = "B" -> "b"
      [] c = "X" -> "x"
      [] OTHER -> c

\* str.lower()
lower(s) == [i \in DOMAIN s |-> LowerChar(s[i])]

\* needle in hay
Contains(hay, needle) ==
    \E i \in 0..(Len(hay) - Len(needle)) :
        SubSeq(hay, i + 1, i + Len(needle)) = needle

----------------------------------------------------------------------------
(* Enumerations *)

ContextType == {"CONVERSATION", "DECISION", "PROJECT", "TASK", "INSIGHT", "RELATIONSHIP"}

ContextTypeValue(t) ==
    CASE t = "CONVERSATION" -> "conversation"
      [] t = "DECISION" -> "decision"
      [] t = "PROJECT" -> "project"
      [] t = "TASK" -> "task"
      [] t = "INSIGHT" -> "insight"
      [] t = "RELATIONSHIP" -> "relationship"

Priority == {"CRITICAL", "HIGH", "MEDIUM", "LOW"}

PriorityValue(p) ==
    CASE p = "CRITICAL" -> "critical"
      [] p = "HIGH" -> "high"
      [] p = "MEDIUM" -> "medium"
      [] p = "LOW" -> "low"

\* ContextType(value) / Priority(value): the member with that value; the
\* call raises ValueError when there is none (IsContextTypeValue is FALSE)
IsContextTypeValue(v) == \E t \in ContextType : ContextTypeValue(t) = v
ContextTypeOf(v) == CHOOSE t \in ContextType : ContextTypeValue(t) = v

IsPriorityValue(v) == \E p \in Priority : PriorityValue(p) = v
PriorityOf(v) == CHOOSE p \in Priority : PriorityValue(p) = v

----------------------------------------------------------------------------
(* datetime *)

Second(t) == t \div TicksPerSecond
Microsecond(t) == t % TicksPerSecond

\* now.strftime('%Y%m%d_%H%M%S') and the '%Y-%m-%d %H:%M:%S UTC' rendering:
\* the time to the second
strftime(t) == Second(t)

\* a faulty isoformat: the time to the second only
isoformat_seconds(t) == <<Second(t)>>

\* datetime.isoformat(): the sub-second part is written only when non-zero
isoformat(t) ==
    IF Microsecond(t) = 0 THEN <<Second(t)>> ELSE <<Second(t), Microsecond(t)>>

\* datetime.fromisoformat(s) raises ValueError unless s has one of the two shapes
IsIsoFormat(s) ==
    \/ Len(s) = 1
    \/ Len(s) = 2 /\ s[2] \in 1..(TicksPerSecond - 1)

fromisoformat(s) ==
    IF Len(s) = 1 THEN s[1] * TicksPerSecond ELSE s[1] * TicksPerSecond + s[2]

----------------------------------------------------------------------------
(* ContextItem *)

ItemFields == {"id", "type", "title", "content", "priority", "created_at",
               "updated_at", "tags", "connections", "metadata"}

\* references to dict objects: the default-argument object, or the item's own
DefaultRef == [ref |-> "default"]
OwnRef(d) == [ref |-> "own", val |-> d]

\* the contents of the dict a metadata reference points to
Deref(m, dflt) == IF m.ref = "default" THEN dflt ELSE m.val

\* the item with every attribute by value: what dataclasses.asdict copies out
asdict(item, dflt) == [item EXCEPT !.metadata = Deref(item.metadata, dflt)]

\* ContextItem.to_dict: asdict, with the two timestamps as ISO-8601 strings
to_dict(item, dflt) ==
    [asdict(item, dflt) EXCEPT !.created_at = isoformat(item.created_at),
                               !.updated_at = isoformat(item.updated_at)]

\* what json.dump writes for one to_dict result: an enum member (a str
\* subclass) is written as its value
json_record(data) ==
    [data EXCEPT !.type = ContextTypeValue(data.type),
                 !.priority = PriorityValue(data.priority)]

\* ContextItem.from_dict raises (KeyError, ValueError, TypeError) unless this holds
from_dict_ok(data) ==
    /\ DOMAIN data = ItemFields
    /\ IsIsoFormat(data.created_at)
    /\ IsIsoFormat(data.updated_at)
    /\ IsContextTypeValue(data.type)
    /\ IsPriorityValue(data.priority)

\* ContextItem.from_dict: the loaded item owns the metadata dict json.load built
from_dict(data) ==
    [data EXCEPT !.created_at = fromisoformat(data.created_at),
                 !.updated_at = fromisoformat(data.updated_at),
                 !.type = ContextTypeOf(data.type),
                 !.priority = PriorityOf(data.priority),
                 !.metadata = OwnRef(data.metadata)]

----------------------------------------------------------------------------
(* The mapping: an insertion-ordered dict as a sequence of [key, item] *)

Keys(d) == {d[i].key : i \in DOMAIN d}

HasKey(d, k) == \E i \in DOMAIN d : d[i].key = k

IndexOf(d, k) == CHOOSE i \in DOMAIN d : d[i].key = k

\* d[k] = v: an existing key keeps its position, a new key goes last
DictSet(d, k, v) ==
    IF HasKey(d, k)
    THEN [d EXCEPT ![IndexOf(d, k)] = [key |-> k, item |-> v]]
    ELSE Append(d, [key |-> k, item |-> v])

\* list(d.values())
Values(d) == [i \in DOMAIN d |-> d[i].item]

\* ContextManager.get_context: contexts.get(context_id), None when absent
get_context(d, context_id) ==
    IF HasKey(d, context_id)
    THEN [found |-> TRUE, item |-> d[IndexOf(d, context_id)].item]
    ELSE [found |-> FALSE]

----------------------------------------------------------------------------
(* The backing file *)

MissingFile == [kind |-> "missing"]
InvalidJson == [kind |-> "text", json |-> [jtype |-> "invalid"]]
JsonArray == [kind |-> "text", json |-> [jtype |-> "array"]]
JsonObject(members) ==
    [kind |-> "text", json |-> [jtype |-> "object", members |-> members]]

\* the document save_contexts builds and json.dump writes
json_dump(d, dflt) ==
    JsonObject([i \in DOMAIN d |->
        [key |-> d[i].key, data |-> json_record(to_dict(d[i].item, dflt))]])

\* the try block of load_contexts completes without raising
load_ok(f) ==
    /\ f.kind = "text"
    /\ f.json.jtype = "object"
    /\ \A i \in DOMAIN f.json.members : from_dict_ok(f.json.members[i].data)

\* a faulty load_contexts: records are loaded one by one and a bad one skipped
load_contexts_partial(f, current) ==
    IF f.kind = "missing" THEN current
    ELSE IF f.json.jtype = "object"
         THEN LET good == SelectSeq(f.json.members, LAMBDA m : from_dict_ok(m.data))
              IN [i \in DOMAIN good |->
                     [key |-> good[i].key, item |-> from_dict(good[i].data)]]
         ELSE <<>>

\* ContextManager.load_contexts, from self.contexts = current
load_contexts(f, current) ==
    IF f.kind = "missing" THEN current
    ELSE IF load_ok(f)
         THEN [i \in DOMAIN f.json.members |->
                  [key |-> f.json.members[i].key,
                   item |-> from_dict(f.json.members[i].data)]]
         ELSE <<>>

\* ContextManager.__init__: empty mapping, then load_contexts
ContextManager_init(f) == load_contexts(f, <<>>)

\* How one save_contexts call can end
SaveOutcomes == {"ok", "open_failed", "write_failed"}

\* a faulty save_contexts: no try/except, the I/O error reaches the caller
save_contexts_propagates(outcome) == outcome # "ok"

\* ContextManager.save_contexts: whether an exception leaves it.  The whole
\* body is inside try/except Exception, which prints and returns
save_contexts_raises(outcome) == FALSE

\* ContextManager.save_contexts: the file it leaves.  open(..., 'w') raising
\* leaves the file alone; an error after open has truncated the file leaves
\* a partial document
save_contexts(d, dflt, f, outcome) ==
    CASE outcome = "ok" -> json_dump(d, dflt)
      [] outcome = "open_failed" -> f
      [] outcome = "write_failed" -> InvalidJson

----------------------------------------------------------------------------
(* ContextManager queries *)

\* query_lower in title.lower() or in content.lower() or in some tag.lower()
Matches(item, query) ==
    LET query_lower == lower(query) IN
    \/ Contains(lower(item.title), query_lower)
    \/ Contains(lower(item.content), query_lower)
    \/ \E i \in DOMAIN item.tags : Contains(lower(item.tags[i]), query_lower)

\* "if context_type and context.type != context_type: continue"
PassesType(item, context_type) ==
    ~(context_type.given /\ item.type # context_type.val)

\* x goes after every element whose updated_at is not smaller: a stable
\* descending insertion
InsertDesc(s, x) ==
    LET n == Cardinality({i \in DOMAIN s : s[i].updated_at >= x.updated_at})
    IN SubSeq(s, 1, n) \o <<x>> \o SubSeq(s, n + 1, Len(s))

RECURSIVE sorted_asc(_)
\* a faulty sort: reverse=True is left out, the order is ascending
sorted_asc(s) ==
    IF s = <<>> THEN <<>>
    ELSE LET rest == sorted_asc(SubSeq(s, 1, Len(s) - 1))
             x == s[Len(s)]
             n == Cardinality({i \in DOMAIN rest : rest[i].updated_at <= x.updated_at})
         IN SubSeq(rest, 1, n) \o <<x>> \o SubSeq(rest, n + 1, Len(rest))

RECURSIVE sorted_desc(_)
\* sorted(items, key=lambda x: x.updated_at, reverse=True): stable
sorted_desc(s) ==
    IF s = <<>> THEN <<>>
    ELSE InsertDesc(sorted_desc(SubSeq(s, 1, Len(s) - 1)), s[Len(s)])

\* s[:limit], for any integer limit
slice_to(s, limit) ==
    IF limit >= 0 THEN SubSeq(s, 1, Min(limit, Len(s)))
    ELSE SubSeq(s, 1, Max(0, Len(s) + limit))

\* ContextManager.search_contexts
search_contexts(d, query, context_type) ==
    sorted_desc(SelectSeq(Values(d),
        LAMBDA c : PassesType(c, context_type) /\ Matches(c, query)))

\* ContextManager.get_recent_contexts
get_recent_contexts(d, limit, context_type) ==
    slice_to(sorted_desc(SelectSeq(Values(d),
        LAMBDA c : PassesType(c, context_type))), limit)

----------------------------------------------------------------------------
(* The read tools: the values each one renders *)

\* search_context: results = search_contexts(query, context_type)[:limit]
search_context(d, query, context_type, limit) ==
    slice_to(search_contexts(d, query, context_type), limit)

\* get_recent_context: contexts = get_recent_contexts(limit, context_type)
get_recent_context(d, limit, context_type) ==
    get_recent_contexts(d, limit, context_type)

\* get_context_details: the not-found message, or the fields it prints
get_context_details(d, dflt, context_id) ==
    LET r == get_context(d, context_id) IN
    IF ~r.found THEN [found |-> FALSE]
    ELSE [found |-> TRUE,
          title |-> r.item.title,
          id |-> r.item.id,
          type |-> ContextTypeValue(r.item.type),
          priority |-> PriorityValue(r.item.priority),
          created |-> strftime(r.item.created_at),
          updated |-> strftime(r.item.updated_at),
          tags |-> r.item.tags,
          connections |-> r.item.connections,
          content |-> r.item.content,
          metadata |-> Deref(r.item.metadata, dflt)]

----------------------------------------------------------------------------
(* The write tools *)

\* a faulty ID: the creation second alone, without the type
new_context_id_without_type(a, t) == <<"context", strftime(t)>>

\* add_context lines 176-190: the ID and the ContextItem built from the
\* arguments.  An omitted tags or connections binds the parameter's default
\* list (never mutated by any code, so always []); an omitted metadata binds
\* the parameter's default dict object itself
new_context_id(a, t) ==
    <<ContextTypeValue(IF a.context_type.given THEN a.context_type.val
                       ELSE "CONVERSATION"), strftime(t)>>

new_context_item(a, t) ==
    [id |-> new_context_id(a, t),
     type |-> IF a.context_type.given THEN a.context_type.val ELSE "CONVERSATION",
     title |-> a.title,
     content |-> a.content,
     priority |-> IF a.priority.given THEN a.priority.val ELSE "MEDIUM",
     created_at |-> t,
     updated_at |-> t,
     tags |-> IF a.tags.given THEN a.tags.val ELSE <<>>,
     connections |-> IF a.connections.given THEN a.connections.val ELSE <<>>,
     metadata |-> IF a.metadata.given THEN OwnRef(a.metadata.val) ELSE DefaultRef]

\* a faulty store: a new ID evicts the oldest entry once two are held
store_context_evicting(d, item) ==
    IF ~HasKey(d, item.id) /\ Len(d) >= 2
    THEN Append(Tail(d), [key |-> item.id, item |-> item])
    ELSE DictSet(d, item.id, item)

\* ContextManager.add_context, the in-memory part: contexts[context.id] = context
store_context(d, item) == DictSet(d, item.id, item)

\* a faulty update: updated_at is stamped only when some field is provided
patched_item_stamps_on_change(item, p, t) ==
    [item EXCEPT
        !.title = IF p.title.given THEN p.title.val ELSE @,
        !.content = IF p.content.given THEN p.content.val ELSE @,
        !.priority = IF p.priority.given THEN p.priority.val ELSE @,
        !.tags = IF p.tags.given THEN p.tags.val ELSE @,
        !.connections = IF p.connections.given THEN p.connections.val ELSE @,
        !.updated_at = IF \E f \in DOMAIN p : p[f].given THEN t ELSE @]

\* a faulty update: the time of the update is written to created_at
patched_item_stamps_created(item, p, t) ==
    [item EXCEPT
        !.title = IF p.title.given THEN p.title.val ELSE @,
        !.content = IF p.content.given THEN p.content.val ELSE @,
        !.priority = IF p.priority.given THEN p.priority.val ELSE @,
        !.tags = IF p.tags.given THEN p.tags.val ELSE @,
        !.connections = IF p.connections.given THEN p.connections.val ELSE @,
        !.created_at = t]

\* update_context lines 331-340 and 344: the attributes assigned on the item
patched_item(item, p, t) ==
    [item EXCEPT
        !.title = IF p.title.given THEN p.title.val ELSE @,
        !.content = IF p.content.given THEN p.content.val ELSE @,
        !.priority = IF p.priority.given THEN p.priority.val ELSE @,
        !.tags = IF p.tags.given THEN p.tags.val ELSE @,
        !.connections = IF p.connections.given THEN p.connections.val ELSE @,
        !.updated_at = t]

\* update_context lines 341-342: context.metadata.update(metadata) changes the
\* dict object the item refers to, in place.  The item's reference after it:
merged_ref(item, p) ==
    IF p.metadata.given /\ item.metadata.ref = "own"
    THEN OwnRef(dict_update(item.metadata.val, p.metadata.val))
    ELSE item.metadata

\* ... and the default-argument dict object after it
merged_default(item, p, dflt) ==
    IF p.metadata.given /\ item.metadata.ref = "default"
    THEN dict_update(dflt, p.metadata.val)
    ELSE dflt

\* a faulty get_context_stats: the recent list is taken in storage order
get_context_stats_unsorted(d) ==
    LET items == Values(d)
        CountType(v) == Cardinality({i \in DOMAIN items : ContextTypeValue(items[i].type) = v})
        CountPrio(v) == Cardinality({i \in DOMAIN items : PriorityValue(items[i].priority) = v})
    IN IF items = <<>> THEN [empty |-> TRUE]
       ELSE [empty |-> FALSE,
             total |-> Len(items),
             type_counts |-> [v \in {ContextTypeValue(items[i].type) : i \in DOMAIN items}
                                 |-> CountType(v)],
             priority_counts |-> [v \in {PriorityValue(items[i].priority) : i \in DOMAIN items}
                                     |-> CountPrio(v)],
             recent |-> slice_to(items, 3)]

\* get_context_stats: the counts and the recent list it prints
get_context_stats(d) ==
    LET items == Values(d)
        CountType(v) == Cardinality({i \in DOMAIN items : ContextTypeValue(items[i].type) = v})
        CountPrio(v) == Cardinality({i \in DOMAIN items : PriorityValue(items[i].priority) = v})
    IN IF items = <<>> THEN [empty |-> TRUE]
       ELSE [empty |-> FALSE,
             total |-> Len(items),
             type_counts |-> [v \in {ContextTypeValue(items[i].type) : i \in DOMAIN items}
                                 |-> CountType(v)],
             priority_counts |-> [v \in {PriorityValue(items[i].priority) : i \in DOMAIN items}
                                     |-> CountPrio(v)],
             recent |-> slice_to(sorted_desc(items), 3)]

----------------------------------------------------------------------------
(* Inputs *)

AddArgs ==
    { [title |-> <<"A", "b">>, content |-> <<"x">>,
       context_type |-> Given("TASK"), priority |-> Given("HIGH"),
       tags |-> NotGiven, connections |-> NotGiven, metadata |-> NotGiven],
      [title |-> <<"b">>, content |-> <<"A">>,
       context_type |-> NotGiven, priority |-> NotGiven,
       tags |-> Given(<< <<"a", "B">> >>),
       connections |-> Given(<< <<"task", 0>> >>),
       metadata |-> Given([k \in {"j", "k"} |-> "v1"])],
      [title |-> <<"B", "a">>, content |-> <<>>,
       context_type |-> Given("TASK"), priority |-> Given("LOW"),
       tags |-> Given(<< <<"X">>, <<"b">> >>),
       connections |-> Given(<<>>), metadata |-> Given(EmptyDict)] }

UpdateArgs ==
    { [title |-> NotGiven, content |-> NotGiven, priority |-> NotGiven,
       tags |-> NotGiven, connections |-> NotGiven, metadata |-> NotGiven],
      [title |-> NotGiven, content |-> NotGiven, priority |-> NotGiven,
       tags |-> NotGiven, connections |-> NotGiven,
       metadata |-> Given(DictOf("k", "v2"))],
      [title |-> Given(<<"a">>), content |-> Given(<<"B", "x">>),
       priority |-> Given("CRITICAL"), tags |-> Given(<< <<"A", "b">> >>),
       connections |-> Given(<<>>), metadata |-> NotGiven] }

\* the patch an update of an absent ID is called with: every field provided
AbsentUpdateArgs ==
    { [title |-> Given(<<"a">>), content |-> Given(<<"B", "x">>),
       priority |-> Given("CRITICAL"), tags |-> Given(<< <<"A", "b">> >>),
       connections |-> Given(<<>>), metadata |-> Given(DictOf("k", "v2"))] }

\* the IDs add_context can produce within the model's time
ContextIds ==
    {<<ContextTypeValue(t), s>> : t \in {"TASK", "CONVERSATION"}, s \in 0..Second(MaxTime)}

Queries == {<<>>, <<"a">>, <<"B">>, <<"a", "b">>, <<"x">>, <<"b", "b">>}
TypeFilters == {NotGiven, Given("TASK"), Given("CONVERSATION"), Given("DECISION")}
Limits == {-2, -1, 0, 1, 2, 3, 10}

\* the arguments the read tools are called with
CallQueries == {<<"a">>}
CallFilters == {NotGiven, Given("TASK")}
CallLimits == {-1, 2}
CallIds == {<<"task", 0>>, <<"conversation", 0>>}

\* one record as an earlier run of the program wrote it
StoredRecord ==
    [id |-> <<"task", 0>>, type |-> "task", title |-> <<"b", "a">>,
     content |-> <<"x">>, priority |-> "high",
     created_at |-> <<0>>, updated_at |-> <<0>>,
     tags |-> << <<"t">> >>, connections |-> <<>>,
     metadata |-> DictOf("j", "v1")]

\* records from_dict rejects
BadRecords ==
    { [StoredRecord EXCEPT !.type = "bogus"],
      [StoredRecord EXCEPT !.priority = "urgent"],
      [StoredRecord EXCEPT !.created_at = <<>>],
      [f \in ItemFields \ {"title"} |-> StoredRecord[f]] }

Member(k, data) == [key |-> k, data |-> data]

\* what the backing file can hold when the process starts
InitialFiles ==
    { MissingFile, InvalidJson, JsonArray, JsonObject(<<>>),
      JsonObject(<<Member(<<"task", 0>>, StoredRecord)>>) }
    \cup { JsonObject(<<Member(<<"task", 0>>, StoredRecord),
                        Member(<<"decision", 0>>, bad)>>) : bad \in BadRecords }

----------------------------------------------------------------------------
(* The state machine *)

\* the concurrent callers of the tools
Callers == {"c1", "c2"}

\* a caller between two tool calls
Idle == [pc |-> "idle", call |-> [op |-> "none"], created |-> 0, at |-> 0,
         data |-> MissingFile]

Init ==
    /\ file \in InitialFiles
    /\ contexts = ContextManager_init(file)
    /\ default_metadata = EmptyDict
    /\ now = 0
    /\ last = [op |-> "init"]
    /\ saved = "none"
    /\ ops = 0
    /\ failures = 0
    /\ lock = "free"
    /\ callers = [c \in Callers |-> Idle]
    /\ persisted = {}

CanSave(outcome) == outcome = "ok" \/ failures < MaxFailures

Counted(outcome) ==
    /\ ops' = ops + 1
    /\ failures' = IF outcome = "ok" THEN failures ELSE failures + 1
    /\ saved' = IF outcome = "ok" THEN "ok" ELSE "failed"

\* the clock advances between calls
Tick ==
    /\ ops < MaxOps
    /\ now < MaxTime
    /\ now' = now + 1
    /\ UNCHANGED <<contexts, default_metadata, file, last, saved, ops, failures>>
    /\ UNCHANGED mutex_vars

\* the process ends and a new one imports the module: the default-argument
\* objects are created anew and ContextManager() loads the file
Restart ==
    /\ ops < MaxOps
    /\ contexts' = ContextManager_init(file)
    /\ default_metadata' = EmptyDict
    /\ last' = [op |-> "restart"]
    /\ saved' = "none"
    /\ ops' = ops + 1
    /\ UNCHANGED <<file, now, failures>>
    /\ UNCHANGED mutex_vars

\* the add_context tool
AddContext(a, outcome) ==
    /\ ops < MaxOps
    /\ CanSave(outcome)
    /\ contexts' = store_context(contexts, new_context_item(a, now))
    /\ file' = save_contexts(contexts', default_metadata, file, outcome)
    /\ last' = [op |-> "add_context", args |-> a,
                context_id |-> new_context_id(a, now), outcome |-> outcome,
                returned |-> IF save_contexts_raises(outcome) THEN "error" ELSE "added"]
    /\ Counted(outcome)
    /\ UNCHANGED <<default_metadata, now>>
    /\ UNCHANGED mutex_vars

\* a faulty update of an absent ID: it falls through to save_contexts
UpdateMissingSaves(context_id, p) ==
    /\ ops < MaxOps
    /\ ~get_context(contexts, context_id).found
    /\ file' = save_contexts(contexts, default_metadata, file, "ok")
    /\ saved' = "ok"
    /\ last' = [op |-> "update_context", context_id |-> context_id, args |-> p,
                found |-> FALSE, returned |-> "not_found"]
    /\ ops' = ops + 1
    /\ UNCHANGED <<contexts, default_metadata, now, failures>>
    /\ UNCHANGED mutex_vars

\* the update_context tool on an ID that get_context does not find
UpdateMissing(context_id, p) ==
    /\ ops < MaxOps
    /\ ~get_context(contexts, context_id).found
    /\ last' = [op |-> "update_context", context_id |-> context_id, args |-> p,
                found |-> FALSE, returned |-> "not_found"]
    /\ ops' = ops + 1
    /\ UNCHANGED <<contexts, default_metadata, file, now, saved, failures>>
    /\ UNCHANGED mutex_vars

\* a faulty update: the fields are assigned but save_contexts is not called
UpdateFoundNoSave(context_id, p, outcome) ==
    /\ ops < MaxOps
    /\ CanSave(outcome)
    /\ get_context(contexts, context_id).found
    /\ LET item == get_context(contexts, context_id).item IN
        /\ contexts' = DictSet(contexts, context_id,
                           [patched_item(item, p, now) EXCEPT !.metadata = merged_ref(item, p)])
        /\ default_metadata' = merged_default(item, p, default_metadata)
    /\ file' = file
    /\ last' = [op |-> "update_context", context_id |-> context_id, args |-> p,
                found |-> TRUE, outcome |-> outcome, returned |-> "updated"]
    /\ Counted(outcome)
    /\ UNCHANGED now
    /\ UNCHANGED mutex_vars

\* the update_context tool on an ID that get_context finds
UpdateFound(context_id, p, outcome) ==
    /\ ops < MaxOps
    /\ CanSave(outcome)
    /\ get_context(contexts, context_id).found
    /\ LET item == get_context(contexts, context_id).item IN
        /\ contexts' = DictSet(contexts, context_id,
                           [patched_item(item, p, now) EXCEPT !.metadata = merged_ref(item, p)])
        /\ default_metadata' = merged_default(item, p, default_metadata)
    /\ file' = save_contexts(contexts', default_metadata', file, outcome)
    /\ last' = [op |-> "update_context", context_id |-> context_id, args |-> p,
                found |-> TRUE, outcome |-> outcome,
                returned |-> IF save_contexts_raises(outcome) THEN "error" ELSE "updated"]
    /\ Counted(outcome)
    /\ UNCHANGED now
    /\ UNCHANGED mutex_vars

\* a faulty read tool: it ends with a call of save_contexts
ReadsAndSaves(record) ==
    /\ ops < MaxOps
    /\ last' = record
    /\ ops' = ops + 1
    /\ file' = json_dump(contexts, default_metadata)
    /\ UNCHANGED <<contexts, default_metadata, now, saved, failures>>
    /\ UNCHANGED mutex_vars

\* a read tool: the call and what it returns are recorded, nothing is assigned
Reads(record) ==
    /\ ops < MaxOps
    /\ last' = record
    /\ ops' = ops + 1
    /\ UNCHANGED <<contexts, default_metadata, file, now, saved, failures>>
    /\ UNCHANGED mutex_vars

SearchContext(query, context_type, limit) ==
    Reads([op |-> "search_context", query |-> query, context_type |-> context_type,
           limit |-> limit,
           result |-> search_context(contexts, query, context_type, limit)])

GetRecentContext(limit, context_type) ==
    Reads([op |-> "get_recent_context", limit |-> limit, context_type |-> context_type,
           result |-> get_recent_context(contexts, limit, context_type)])

GetContextDetails(context_id) ==
    Reads([op |-> "get_context_details", context_id |-> context_id,
           result |-> get_context_details(contexts, default_metadata, context_id)])

GetContextStats ==
    Reads([op |-> "get_context_stats", result |-> get_context_stats(contexts)])

Next ==
    \/ Tick
    \/ Restart
    \/ \E a \in AddArgs, outcome \in SaveOutcomes : AddContext(a, outcome)
    \/ \E id \in ContextIds, p \in AbsentUpdateArgs : UpdateMissing(id, p)
    \/ \E id \in ContextIds, p \in UpdateArgs, outcome \in SaveOutcomes :
            UpdateFound(id, p, outcome)
    \/ \E q \in CallQueries, t \in CallFilters, l \in CallLimits : SearchContext(q, t, l)
    \/ \E l \in CallLimits, t \in CallFilters : GetRecentContext(l, t)
    \/ \E id \in CallIds : GetContextDetails(id)
    \/ GetContextStats

Spec == Init /\ [][Next]_vars

-----------------------------------------------------------------------------
(* Concurrent callers of add_context and update_context on the one
   context_manager.  The statements of a call are separate steps: the mutation
   of the mapping, the building of the document (data = {...}), open(..., 'w')
   and json.dump.  Each call runs its mutation and its save while holding one
   mutex, the wrapper section 5 of the specification describes. *)

AtPc(c, pc) == callers[c].pc = pc

\* the adds the concurrent callers make: of one type, so that two of them
\* within a second get the same ID
ConcurrentAddArgs == {a \in AddArgs : a.context_type.given}

\* the process starts on no file or on a file an earlier run wrote
InitMutex ==
    /\ Init
    /\ file \in {MissingFile, JsonObject(<<Member(<<"task", 0>>, StoredRecord)>>)}

Goto(c, pc) == [callers EXCEPT ![c].pc = pc]

\* add_context lines 176-188: the ID and the item are built from the arguments
BeginAdd(c, a) ==
    /\ ops < MaxCalls
    /\ AtPc(c, "idle")
    /\ callers' = [callers EXCEPT ![c] =
                      [pc |-> "wait", created |-> now, at |-> now, data |-> MissingFile,
                       call |-> [op |-> "add_context", item |-> new_context_item(a, now)]]]
    /\ ops' = ops + 1
    /\ UNCHANGED <<contexts, default_metadata, file, now, last, saved, failures,
                   lock, persisted>>

\* update_context is called with an ID and a patch
BeginUpdate(c, context_id, p) ==
    /\ ops < MaxCalls
    /\ AtPc(c, "idle")
    /\ callers' = [callers EXCEPT ![c] =
                      [pc |-> "wait", created |-> now, at |-> now, data |-> MissingFile,
                       call |-> [op |-> "update_context", context_id |-> context_id,
                                 args |-> p]]]
    /\ ops' = ops + 1
    /\ UNCHANGED <<contexts, default_metadata, file, now, last, saved, failures,
                   lock, persisted>>

\* a faulty wrapper: the mutex is taken without waiting for its holder
AcquireWithoutWaiting(c) ==
    /\ AtPc(c, "wait")
    /\ lock' = c
    /\ callers' = Goto(c, "mutate")
    /\ UNCHANGED <<contexts, default_metadata, file, now, last, saved, ops, failures,
                   persisted>>

\* the wrapper takes the mutex before the call mutates the mapping
Acquire(c) ==
    /\ AtPc(c, "wait")
    /\ lock = "free"
    /\ lock' = c
    /\ callers' = Goto(c, "mutate")
    /\ UNCHANGED <<contexts, default_metadata, file, now, last, saved, ops, failures,
                   persisted>>

\* the saved calls, with those on context_id marked: an add has stored another
\* record under their ID
Replaced(done, context_id) ==
    {IF e.id = context_id THEN [e EXCEPT !.replaced = TRUE] ELSE e : e \in done}

\* a faulty add: the mapping is rebound to one holding the new item only
ThreadStoreRebinding(c) ==
    /\ AtPc(c, "mutate")
    /\ callers[c].call.op = "add_context"
    /\ LET item == callers[c].call.item IN
        /\ contexts' = <<[key |-> item.id, item |-> item]>>
        /\ callers' = [callers EXCEPT ![c].pc = "snapshot",
                                      ![c].created = item.created_at,
                                      ![c].at = item.updated_at]
        /\ persisted' = Replaced(persisted, item.id)
    /\ UNCHANGED <<default_metadata, file, now, last, saved, ops, failures, lock>>

\* ContextManager.add_context line 117: self.contexts[context.id] = context
ThreadStore(c) ==
    /\ AtPc(c, "mutate")
    /\ callers[c].call.op = "add_context"
    /\ LET item == callers[c].call.item IN
        /\ contexts' = store_context(contexts, item)
        /\ callers' = [callers EXCEPT ![c].pc = "snapshot",
                                      ![c].created = item.created_at,
                                      ![c].at = item.updated_at]
        /\ persisted' = Replaced(persisted, item.id)
    /\ UNCHANGED <<default_metadata, file, now, last, saved, ops, failures, lock>>

\* update_context lines 325-344: the lookup, and on a stored ID the assignments
\* and the stamp; an absent ID returns without a save
ThreadUpdate(c) ==
    /\ AtPc(c, "mutate")
    /\ callers[c].call.op = "update_context"
    /\ LET context_id == callers[c].call.context_id
           p == callers[c].call.args
           r == get_context(contexts, context_id)
       IN IF r.found
          THEN /\ contexts' = DictSet(contexts, context_id,
                                 [patched_item(r.item, p, now)
                                     EXCEPT !.metadata = merged_ref(r.item, p)])
               /\ default_metadata' = merged_default(r.item, p, default_metadata)
               /\ callers' = [callers EXCEPT ![c].pc = "snapshot",
                                             ![c].created = r.item.created_at,
                                             ![c].at = now]
          ELSE /\ callers' = Goto(c, "release")
               /\ UNCHANGED <<contexts, default_metadata>>
    /\ UNCHANGED <<file, now, last, saved, ops, failures, lock, persisted>>

\* save_contexts lines 105-108: data = {ctx_id: ctx.to_dict() ...}
ThreadSnapshot(c) ==
    /\ AtPc(c, "snapshot")
    /\ callers' = [callers EXCEPT ![c].pc = "open",
                                  ![c].data = json_dump(contexts, default_metadata)]
    /\ UNCHANGED <<contexts, default_metadata, file, now, last, saved, ops, failures,
                   lock, persisted>>

\* save_contexts line 109: open(self.context_file, 'w') truncates the file, or
\* raises and the except clause ends the save
ThreadOpen(c, outcome) ==
    /\ AtPc(c, "open")
    /\ outcome \in {"ok", "open_failed"}
    /\ CanSave(outcome)
    /\ IF outcome = "ok"
       THEN /\ file' = InvalidJson
            /\ saved' = "writing"
            /\ callers' = Goto(c, "write")
            /\ UNCHANGED failures
       ELSE /\ saved' = "failed"
            /\ failures' = failures + 1
            /\ callers' = Goto(c, "release")
            /\ UNCHANGED file
    /\ UNCHANGED <<contexts, default_metadata, now, last, ops, lock, persisted>>

\* save_contexts line 110: json.dump(data, f, indent=2) writes the document, or
\* raises part-way and the except clause ends the save
ThreadWrite(c, outcome) ==
    /\ AtPc(c, "write")
    /\ outcome \in {"ok", "write_failed"}
    /\ CanSave(outcome)
    /\ IF outcome = "ok"
       THEN /\ file' = callers[c].data
            /\ saved' = "ok"
            /\ persisted' = persisted \cup
                  {[id |-> IF callers[c].call.op = "add_context"
                           THEN callers[c].call.item.id
                           ELSE callers[c].call.context_id,
                    created |-> callers[c].created, at |-> callers[c].at,
                    by |-> c, replaced |-> FALSE]}
            /\ UNCHANGED failures
       ELSE /\ file' = InvalidJson
            /\ saved' = "failed"
            /\ failures' = failures + 1
            /\ UNCHANGED persisted
    /\ callers' = Goto(c, "release")
    /\ UNCHANGED <<contexts, default_metadata, now, last, ops, lock>>

\* the tool returns and the wrapper gives the mutex back
Release(c) ==
    /\ AtPc(c, "release")
    /\ lock' = IF lock = c THEN "free" ELSE lock
    /\ callers' = [callers EXCEPT ![c] = Idle]
    /\ UNCHANGED <<contexts, default_metadata, file, now, last, saved, ops, failures,
                   persisted>>

NextMutex ==
    \/ Tick
    \/ \E c \in Callers, a \in ConcurrentAddArgs : BeginAdd(c, a)
    \/ \E c \in Callers, p \in UpdateArgs : BeginUpdate(c, StoredRecord.id, p)
    \/ \E c \in Callers : Acquire(c)
    \/ \E c \in Callers : ThreadStore(c)
    \/ \E c \in Callers : ThreadUpdate(c)
    \/ \E c \in Callers : ThreadSnapshot(c)
    \/ \E c \in Callers, outcome \in SaveOutcomes : ThreadOpen(c, outcome)
    \/ \E c \in Callers, outcome \in SaveOutcomes : ThreadWrite(c, outcome)
    \/ \E c \in Callers : Release(c)

SpecMutex == InitMutex /\ [][NextMutex]_vars

----------------------------------------------------------------------------
(* Vocabulary of the properties *)

\* the mapping by value: every item with the contents of its metadata
ByValue(d, dflt) ==
    [i \in DOMAIN d |-> [key |-> d[i].key, item |-> asdict(d[i].item, dflt)]]

\* the step is a call of add_context
AddStep == ops' = ops + 1 /\ last'.op = "add_context"

\* the step is a call of update_context on an ID the store holds
UpdateStep == ops' = ops + 1 /\ last'.op = "update_context" /\ last'.found

\* the value an argument of add_context stands for: its own, or the default
ArgOr(arg, dflt) == IF arg.given THEN arg.val ELSE dflt

\* C1: add followed by get_details on the returned ID yields the inputs of
\* that add, with empty tags, connections and metadata when they are omitted,
\* whatever happened before.  (Stated as the claim states it; the code breaks
\* it once an update has merged metadata into a record created with metadata
\* omitted.)
AddThenGetDetailsYieldsInputs ==
    last.op = "add_context" =>
        LET v == get_context_details(contexts, default_metadata, last.context_id)
            a == last.args
        IN /\ v.found
           /\ v.title = a.title
           /\ v.content = a.content
           /\ v.type = ContextTypeValue(ArgOr(a.context_type, "CONVERSATION"))
           /\ v.priority = PriorityValue(ArgOr(a.priority, "MEDIUM"))
           /\ v.tags = ArgOr(a.tags, <<>>)
           /\ v.connections = ArgOr(a.connections, <<>>)
           /\ v.metadata = ArgOr(a.metadata, EmptyDict)

\* C1 without the metadata of an add that omits it: these fields do hold
AddThenGetDetailsOtherFields ==
    last.op = "add_context" =>
        LET v == get_context_details(contexts, default_metadata, last.context_id)
            a == last.args
        IN /\ v.found
           /\ v.title = a.title
           /\ v.content = a.content
           /\ v.type = ContextTypeValue(ArgOr(a.context_type, "CONVERSATION"))
           /\ v.priority = PriorityValue(ArgOr(a.priority, "MEDIUM"))
           /\ v.tags = ArgOr(a.tags, <<>>)
           /\ v.connections = ArgOr(a.connections, <<>>)
           /\ (a.metadata.given => v.metadata = a.metadata.val)

\* C2: after an add or an update of an existing ID whose save succeeded, and
\* until the next mutation or restart, the file holds exactly the in-memory
\* mapping: the same IDs in the same order, each record field for field
FileMirrorsMemoryAfterSave ==
    saved = "ok" =>
        /\ file.kind = "text"
        /\ file.json.jtype = "object"
        /\ Len(file.json.members) = Len(contexts)
        /\ \A i \in DOMAIN contexts :
            LET data == file.json.members[i].data
                item == contexts[i].item
            IN /\ file.json.members[i].key = contexts[i].key
               /\ DOMAIN data = ItemFields
               /\ data.id = item.id
               /\ data.type = ContextTypeValue(item.type)
               /\ data.title = item.title
               /\ data.content = item.content
               /\ data.priority = PriorityValue(item.priority)
               /\ data.created_at = isoformat(item.created_at)
               /\ data.updated_at = isoformat(item.updated_at)
               /\ data.tags = item.tags
               /\ data.connections = item.connections
               /\ data.metadata = Deref(item.metadata, default_metadata)

\* C2 happens: an update was saved while the store holds two records, one of
\* them sharing the default metadata object
SavedAfterUpdate ==
    /\ saved = "ok"
    /\ last.op = "update_context"
    /\ Len(contexts) >= 2
    /\ default_metadata # EmptyDict

\* C3: saving the mapping and constructing a fresh store from the file gives
\* the mapping back: the same IDs, and for each the same type, title, content,
\* priority, created_at, updated_at, tags, connections and metadata
SaveThenLoadRoundTrip ==
    ByValue(ContextManager_init(save_contexts(contexts, default_metadata, file, "ok")),
            EmptyDict)
        = ByValue(contexts, default_metadata)

\* C3 happens: the mapping has a record updated off the second boundary, and
\* a record whose metadata is the non-empty shared default
RoundTripOfRichMapping ==
    /\ Len(contexts) >= 2
    /\ \E i \in DOMAIN contexts : Microsecond(contexts[i].item.updated_at) # 0
    /\ \E i \in DOMAIN contexts :
        /\ contexts[i].item.metadata.ref = "default"
        /\ default_metadata # EmptyDict

\* C4: update_context on an ID that is not in the store returns not-found and
\* changes neither the mapping (size, IDs, fields, updated_at) nor the file,
\* and saves nothing
UpdateOfAbsentIdChangesNothing ==
    [][ (ops' = ops + 1 /\ last'.op = "update_context"
            /\ ~HasKey(contexts, last'.context_id))
        => /\ ~last'.found
           /\ last'.returned = "not_found"
           /\ contexts' = contexts
           /\ default_metadata' = default_metadata
           /\ file' = file
           /\ saved' = saved ]_vars

\* C4 happens: an update of an absent ID was answered while the store holds
\* records and the file does not mirror them
AbsentUpdateOnDivergedStore ==
    /\ last.op = "update_context"
    /\ ~last.found
    /\ contexts # <<>>
    /\ saved = "failed"

\* C5: update_context with a metadata argument merges it key by key: every
\* key of the argument ends with the argument's value, every other key the
\* record had keeps its value, and no other key appears
UpdateMergesMetadata ==
    [][ (UpdateStep /\ last'.args.metadata.given)
        => LET arg == last'.args.metadata.val
               before == Deref(get_context(contexts, last'.context_id).item.metadata,
                               default_metadata)
               after == Deref(get_context(contexts', last'.context_id).item.metadata,
                              default_metadata')
           IN /\ DOMAIN after = (DOMAIN before) \cup (DOMAIN arg)
              /\ \A k \in DOMAIN arg : after[k] = arg[k]
              /\ \A k \in (DOMAIN before) \ (DOMAIN arg) : after[k] = before[k] ]_vars

\* C5 happens: a metadata-only update left a key the argument did not name
\* next to the key it set
MergedMetadataKeepsOtherKey ==
    /\ last.op = "update_context"
    /\ last.found
    /\ last.args.metadata.given
    /\ LET m == Deref(get_context(contexts, last.context_id).item.metadata,
                      default_metadata)
       IN DOMAIN m = {"j", "k"} /\ m["j"] = "v1" /\ m["k"] = "v2"

\* C6: when the save of an add or update fails, the call still returns its
\* normal result, the mutation stays in memory, and get_details, search,
\* list_recent and stats see the mutated record
FailedSaveKeepsMutation ==
    [][ ((AddStep \/ UpdateStep) /\ last'.outcome # "ok")
        => LET id == last'.context_id
               a == last'.args
               r == get_context(contexts', id)
               v == get_context_details(contexts', default_metadata', id)
           IN /\ last'.returned = (IF last'.op = "add_context" THEN "added" ELSE "updated")
              /\ r.found
              /\ r.item.updated_at = now
              /\ (last'.op = "add_context" =>
                    /\ r.item.title = a.title /\ r.item.content = a.content
                    /\ r.item.created_at = now)
              /\ (last'.op = "update_context" =>
                    /\ (a.title.given => r.item.title = a.title.val)
                    /\ (a.content.given => r.item.content = a.content.val)
                    /\ (a.priority.given => r.item.priority = a.priority.val)
                    /\ (a.tags.given => r.item.tags = a.tags.val)
                    /\ (a.connections.given => r.item.connections = a.connections.val)
                    /\ (a.metadata.given =>
                          \A k \in DOMAIN a.metadata.val :
                              v.metadata[k] = a.metadata.val[k]))
              /\ v.found /\ v.title = r.item.title /\ v.updated = strftime(now)
              /\ r.item \in Range(search_context(contexts', r.item.title, NotGiven,
                                                 Len(contexts')))
              /\ r.item \in Range(get_recent_context(contexts', Len(contexts'), NotGiven))
              /\ get_context_stats(contexts').total = Len(contexts')
              /\ get_context_stats(contexts').recent[1].updated_at = now ]_vars

\* C6 happens: the save of an update failed, the file is not a document any
\* more, and the store still holds the updated record
UpdateKeptAfterFailedSave ==
    /\ last.op = "update_context"
    /\ last.found
    /\ last.outcome = "write_failed"
    /\ last.args.title.given
    /\ file = InvalidJson
    /\ get_context(contexts, last.context_id).item.title = last.args.title.val

\* the file is one the claim calls unparsable: invalid JSON, a top-level value
\* that is not an object, or an object with a record that has a missing
\* field, an unknown type or priority, or a bad timestamp
Unparsable(f) ==
    /\ f.kind = "text"
    /\ \/ f.json.jtype = "invalid"
       \/ f.json.jtype = "array"
       \/ /\ f.json.jtype = "object"
          /\ \E i \in DOMAIN f.json.members :
                LET data == f.json.members[i].data IN
                \/ DOMAIN data # ItemFields
                \/ data.type \notin {ContextTypeValue(t) : t \in ContextType}
                \/ data.priority \notin {PriorityValue(q) : q \in Priority}
                \/ ~IsIsoFormat(data.created_at)
                \/ ~IsIsoFormat(data.updated_at)

\* C7: a store constructed with no file, or with a file that cannot be
\* parsed, is entirely empty, and constructing it leaves the file as it was
ConstructionFallsBackToEmpty ==
    /\ [](last.op \in {"init", "restart"} =>
            ((file.kind = "missing" \/ Unparsable(file)) => contexts = <<>>))
    /\ [][ (ops' = ops + 1 /\ last'.op = "restart") => file' = file ]_vars

\* C7 happens: the process restarted on a file whose first record is good and
\* whose second is not, and the store is empty
RestartOnHalfBadFile ==
    /\ last.op = "restart"
    /\ file.kind = "text"
    /\ file.json.jtype = "object"
    /\ Len(file.json.members) = 2
    /\ from_dict_ok(file.json.members[1].data)
    /\ ~from_dict_ok(file.json.members[2].data)
    /\ contexts = <<>>

\* C8: an add of the same type within the same second as a stored record gets
\* that record's ID and replaces it (one record under the ID, with the new
\* call's fields, the size unchanged by the second add); a stored record of
\* another type or second has another ID and is left alone, and an add that
\* collides with nothing makes the store one larger
SameTypeSameSecondOverwrites ==
    [][ AddStep
        => LET a == last'.args
               id == last'.context_id
               type == ArgOr(a.context_type, "CONVERSATION")
               Collides(e) == e.type = type /\ Second(e.created_at) = Second(now)
               r == get_context(contexts', id)
           IN /\ Cardinality({i \in DOMAIN contexts' : contexts'[i].key = id}) = 1
              /\ r.found
              /\ r.item.id = id /\ r.item.type = type
              /\ r.item.title = a.title /\ r.item.content = a.content
              /\ r.item.priority = ArgOr(a.priority, "MEDIUM")
              /\ r.item.tags = ArgOr(a.tags, <<>>)
              /\ r.item.connections = ArgOr(a.connections, <<>>)
              /\ r.item.created_at = now
              /\ \A i \in DOMAIN contexts :
                    IF Collides(contexts[i].item)
                    THEN contexts[i].key = id /\ Len(contexts') = Len(contexts)
                    ELSE contexts[i].key # id /\ contexts'[i] = contexts[i]
              /\ ((\A i \in DOMAIN contexts : ~Collides(contexts[i].item))
                    => Len(contexts') = Len(contexts) + 1) ]_vars

\* C8 happens: the record at the first position of the mapping was created
\* after the one at the second: an add has replaced it under the same ID
SecondAddReplacedFirst ==
    /\ last.op = "add_context"
    /\ Len(contexts) = 2
    /\ last.context_id = contexts[1].key
    /\ contexts[1].item.title = last.args.title
    /\ contexts[1].item.created_at > contexts[2].item.created_at
    /\ Second(contexts[1].item.created_at) = Second(contexts[2].item.created_at)

\* needle occurs in hay when case is ignored
ContainsIgnoringCase(hay, needle) ==
    \E i \in 1..(Len(hay) + 1), j \in 0..Len(hay) :
        /\ j >= i - 1
        /\ lower(SubSeq(hay, i, j)) = lower(needle)

\* the test of C9: the type filter, and the query in the title, the content
\* or a tag
IsSearchHit(item, query, context_type) ==
    /\ (context_type.given => item.type = context_type.val)
    /\ \/ ContainsIgnoringCase(item.title, query)
       \/ ContainsIgnoringCase(item.content, query)
       \/ \E k \in DOMAIN item.tags : ContainsIgnoringCase(item.tags[k], query)

\* s is in descending order of updated_at
DescendingByUpdate(s) ==
    \A i \in 1..(Len(s) - 1) : s[i].updated_at >= s[i + 1].updated_at

\* the first n entries of s; none when n is not positive
FirstEntries(s, n) == SubSeq(s, 1, Min(Max(n, 0), Len(s)))

\* the search returns exactly the hits, each once, in descending order
SearchIsExactAndOrdered(query, context_type) ==
    LET r == search_contexts(contexts, query, context_type)
        hits == {i \in DOMAIN contexts : IsSearchHit(contexts[i].item, query, context_type)}
    IN /\ Range(r) = {contexts[i].item : i \in hits}
       /\ Len(r) = Cardinality(hits)
       /\ DescendingByUpdate(r)

\* C9: search returns exactly the stored records that pass the type filter
\* and contain the query, ignoring case, in the title, the content or a tag,
\* ordered by updated_at descending, and the search tool returns the first
\* `limit` entries of that ordering.  (Stated as the claim states it; the
\* tool's slice breaks the last part for a negative limit.)
SearchToolReturnsFirstLimitHits ==
    \A query \in Queries, context_type \in TypeFilters :
        /\ SearchIsExactAndOrdered(query, context_type)
        /\ \A limit \in Limits :
              search_context(contexts, query, context_type, limit)
                = FirstEntries(search_contexts(contexts, query, context_type), limit)

\* C9 for limits that are not negative: this does hold
SearchToolNaturalLimits ==
    \A query \in Queries, context_type \in TypeFilters :
        /\ SearchIsExactAndOrdered(query, context_type)
        /\ \A limit \in Limits :
              limit >= 0 =>
              search_context(contexts, query, context_type, limit)
                = FirstEntries(search_contexts(contexts, query, context_type), limit)

\* the recent list for one limit and filter is what C10 describes, with
\* `most` the largest number of entries it may have
RecentIsMostRecent(limit, context_type, most) ==
    LET r == get_recent_context(contexts, limit, context_type)
        pass == {i \in DOMAIN contexts :
                    context_type.given => contexts[i].item.type = context_type.val}
        passing == {contexts[i].item : i \in pass}
    IN /\ Len(r) = Min(most, Cardinality(pass))
       /\ Len(r) <= most
       /\ Range(r) \subseteq passing
       /\ Cardinality(Range(r)) = Len(r)
       /\ \A x \in passing \ Range(r), y \in Range(r) : x.updated_at <= y.updated_at
       /\ DescendingByUpdate(r)

\* C10: list_recent(limit, filter) returns min(limit, n) of the n records that
\* pass the filter, the most recently updated ones, in descending order, and
\* never more than `limit` entries, for any value of limit.  A count is not
\* negative, so a negative limit is read as allowing no entry.  (Stated as
\* the claim states it; the slice breaks it for a negative limit.)
RecentReturnsAtMostLimit ==
    \A limit \in Limits, context_type \in TypeFilters :
        RecentIsMostRecent(limit, context_type, Max(limit, 0))

\* C10 for limits that are not negative: this does hold
RecentNaturalLimits ==
    \A limit \in Limits, context_type \in TypeFilters :
        limit >= 0 => RecentIsMostRecent(limit, context_type, limit)

\* the count a stats mapping reports for a value: a value it does not list
\* has none
Reported(counts, v) == IF v \in DOMAIN counts THEN counts[v] ELSE 0

RECURSIVE SumOver(_, _)
\* the sum of f over the set S
SumOver(f, S) ==
    IF S = {} THEN 0
    ELSE LET x == CHOOSE y \in S : TRUE IN f[x] + SumOver(f, S \ {x})

\* C11: stats reports the number of records of the mapping as total, for each
\* type and each priority the number of stored records with that value (each
\* family of counts summing to the total), and as most recent the
\* min(3, total) records with the greatest updated_at, in descending order.
\* For an empty mapping it reports that the store is empty.
StatsCountsTheMapping ==
    LET st == get_context_stats(contexts)
        items == {contexts[i].item : i \in DOMAIN contexts}
    IN /\ st.empty <=> contexts = <<>>
       /\ ~st.empty =>
            /\ st.total = Len(contexts)
            /\ \A t \in ContextType :
                  Reported(st.type_counts, ContextTypeValue(t))
                    = Cardinality({i \in DOMAIN contexts : contexts[i].item.type = t})
            /\ \A q \in Priority :
                  Reported(st.priority_counts, PriorityValue(q))
                    = Cardinality({i \in DOMAIN contexts : contexts[i].item.priority = q})
            /\ SumOver(st.type_counts, DOMAIN st.type_counts) = st.total
            /\ SumOver(st.priority_counts, DOMAIN st.priority_counts) = st.total
            /\ Len(st.recent) = Min(3, st.total)
            /\ Range(st.recent) \subseteq items
            /\ Cardinality(Range(st.recent)) = Len(st.recent)
            /\ \A x \in items \ Range(st.recent), y \in Range(st.recent) :
                  x.updated_at <= y.updated_at
            /\ DescendingByUpdate(st.recent)

\* C11 happens: the mapping holds four records of two types and the one
\* stored last is more recent than the one stored first, so that the recent
\* list leaves a record out and is not the first three in storage order
StatsOverFourRecords ==
    /\ Len(contexts) = 4
    /\ Cardinality({contexts[i].item.type : i \in DOMAIN contexts}) = 2
    /\ contexts[4].item.updated_at > contexts[1].item.updated_at

\* C12: in every reachable state every record is stored under the key equal
\* to its own id (so no two entries share an id), and no record was updated
\* before it was created
KeyIsIdAndUpdateNotBeforeCreation ==
    /\ \A i \in DOMAIN contexts :
          /\ contexts[i].key = contexts[i].item.id
          /\ contexts[i].item.updated_at >= contexts[i].item.created_at
    /\ Cardinality({contexts[i].item.id : i \in DOMAIN contexts}) = Len(contexts)

\* C12 happens: a store reloaded from a file the program wrote holds two
\* records, one of them updated after its creation
ReloadedStoreWithUpdatedRecord ==
    /\ last.op = "restart"
    /\ Len(contexts) = 2
    /\ \E i \in DOMAIN contexts :
          contexts[i].item.updated_at > contexts[i].item.created_at

\* the tool call of this step ran save_contexts and the save failed
FailedSaveStep ==
    /\ AddStep \/ (UpdateStep /\ last'.found)
    /\ last'.outcome # "ok"

\* C13: a failed persist loses data but corrupts nothing: after it the backing
\* file still holds the complete, parseable mapping it held before the call,
\* so a restart loads that earlier mapping
FailedSaveLeavesFileIntact ==
    [][FailedSaveStep /\ load_ok(file) =>
          /\ load_ok(file')
          /\ ContextManager_init(file') = ContextManager_init(file)]_vars

\* the fields update_context replaces when they are provided
ReplacedFields == {"title", "content", "priority", "tags", "connections"}

\* C14: a successful update sets each provided field among title, content,
\* priority, tags and connections to the provided value and merges a provided
\* metadata; it leaves id, type, created_at and every field not provided as
\* they were; and it sets updated_at to the current time in every case, also
\* when no field is provided
UpdateChangesExactlyProvidedFields ==
    [][UpdateStep /\ last'.found =>
        LET i == IndexOf(contexts, last'.context_id)
            old == contexts[i].item
            new == contexts'[i].item
            p == last'.args
            oldmeta == Deref(old.metadata, default_metadata)
            newmeta == Deref(new.metadata, default_metadata')
        IN /\ contexts'[i].key = last'.context_id
           /\ new.id = old.id
           /\ new.type = old.type
           /\ new.created_at = old.created_at
           /\ \A f \in ReplacedFields :
                 new[f] = IF p[f].given THEN p[f].val ELSE old[f]
           /\ \A k \in DOMAIN newmeta :
                 newmeta[k] = IF p.metadata.given /\ k \in DOMAIN p.metadata.val
                              THEN p.metadata.val[k] ELSE oldmeta[k]
           /\ DOMAIN newmeta = DOMAIN oldmeta \cup
                 (IF p.metadata.given THEN DOMAIN p.metadata.val ELSE {})
           /\ new.updated_at = now']_vars

\* C14 happens: an update that provides no field has found its record at a
\* later time than the record's creation
EmptyUpdateAfterTick ==
    /\ last.op = "update_context"
    /\ last.found
    /\ \A f \in DOMAIN last.args : ~last.args[f].given
    /\ LET item == get_context(contexts, last.context_id).item
       IN item.updated_at = now /\ item.updated_at > item.created_at

\* the step ends the process and starts a new one
RestartStep == ops' = ops + 1 /\ last'.op = "restart"

\* C15: no operation removes a record: within one process run every step
\* keeps every ID of the in-memory mapping, get_details still finds each of
\* them after the step, and the size of the mapping does not decrease
NoOperationRemovesARecord ==
    [][~RestartStep =>
          /\ Keys(contexts) \subseteq Keys(contexts')
          /\ Len(contexts') >= Len(contexts)
          /\ \A k \in Keys(contexts) :
                get_context_details(contexts', default_metadata', k).found]_vars

\* C15 happens: after two adds of new IDs in this run, get_details finds the
\* oldest ID of a mapping of three
OldestIdFoundAmongThree ==
    /\ last.op = "get_context_details"
    /\ last.result.found
    /\ Len(contexts) = 3
    /\ last.context_id = contexts[1].key

\* C16: a successful update of one record leaves every other record of the
\* mapping unchanged in all its fields, as get_details and the file show them,
\* also the records created with tags, connections or metadata omitted
UpdateLeavesOtherRecordsAlone ==
    [][UpdateStep =>
          /\ Len(contexts') = Len(contexts)
          /\ \A j \in DOMAIN contexts :
                contexts[j].key # last'.context_id =>
                   /\ contexts'[j].key = contexts[j].key
                   /\ asdict(contexts'[j].item, default_metadata')
                         = asdict(contexts[j].item, default_metadata)]_vars

\* the backing file holds the record a saved call left, in the state that call
\* left it or a later one
InFile(e) ==
    LET loaded == ContextManager_init(file) IN
    /\ HasKey(loaded, e.id)
    /\ get_context(loaded, e.id).item.created_at = e.created
    /\ get_context(loaded, e.id).item.updated_at >= e.at

\* C17: with concurrent callers whose calls mutate and save under one mutex,
\* no update is lost: whenever a save has completed, the backing file still
\* holds the effect of every add and update whose save completed before
NoLostUpdateUnderMutex ==
    saved = "ok" => \A e \in persisted : InFile(e)

\* C17 as amended: ... unless a later add of the same type within the same
\* second has stored another record under the ID; the ID itself stays in the
\* file in every case
NoLostUpdateButByCollision ==
    saved = "ok" =>
        \A e \in persisted :
            /\ HasKey(ContextManager_init(file), e.id)
            /\ e.replaced \/ InFile(e)

\* C17 happens: each of the two callers has saved a call of its own, the two
\* on different IDs, and the last save completed
BothCallersPersisted ==
    /\ saved = "ok"
    /\ \E e1, e2 \in persisted : e1.by # e2.by /\ e1.id # e2.id

\* every other record of the mapping was last changed before the current time
ClockAdvancedSinceOthers(context_id) ==
    \A i \in DOMAIN contexts :
        contexts[i].key # context_id => contexts[i].item.updated_at < now

\* C18: when the clock has advanced since every other record's last change, the
\* record an add or update has just written is the first entry of list_recent
\* (limit >= 1, no filter or its own type), the first of stats' most-recent
\* list, and ahead of every other match in every search that matches it; the
\* reads that follow see the same mapping, so this lasts until the next add or
\* update
JustWrittenComesFirst ==
    [][(AddStep \/ UpdateStep) /\ ClockAdvancedSinceOthers(last'.context_id) =>
        LET item == get_context(contexts', last'.context_id).item
            OwnFilters == {NotGiven, Given(item.type)}
        IN /\ \A limit \in {l \in Limits : l >= 1}, t \in OwnFilters :
                 get_recent_context(contexts', limit, t)[1] = item
           /\ get_context_stats(contexts').recent[1] = item
           /\ \A q \in Queries, t \in OwnFilters :
                 Matches(item, q) =>
                    /\ search_contexts(contexts', q, t)[1] = item
                    /\ search_context(contexts', q, t, 1) = <<item>>]_vars

\* C18 happens: the oldest entry of a mapping of several records has just been
\* updated, later than every other record's last change
OldestEntryJustUpdated ==
    /\ last.op = "update_context"
    /\ last.found
    /\ Len(contexts) >= 2
    /\ contexts[1].key = last.context_id
    /\ \A i \in 2..Len(contexts) :
          contexts[i].item.updated_at < contexts[1].item.updated_at

\* the tools that only read
ReadTools ==
    {"get_context_details", "search_context", "get_recent_context", "get_context_stats"}

\* the step is a call of a read tool
ReadStep == ops' = ops + 1 /\ last'.op \in ReadTools

\* C19: get_details, search, list_recent and stats change neither the
\* in-memory mapping (its keys, their order, any field of any record) nor the
\* backing file
ReadsChangeNothing ==
    [][ReadStep =>
          /\ contexts' = contexts
          /\ default_metadata' = default_metadata
          /\ file' = file]_vars

\* C19 happens: stats has been read from a store of several records whose
\* last save failed, so that memory and file differ
StatsReadOnDivergedStore ==
    /\ last.op = "get_context_stats"
    /\ saved = "failed"
    /\ Len(contexts) >= 2
    /\ file # json_dump(contexts, default_metadata)

====
